---- MODULE Spec2Model ----
(***************************************************************************)
(* State-machine model of the Truco match driven by Game::start            *)
(* (src/src/main.rs).  One Game object, one thread; the positions of the   *)
(* main loop are kept in pc and hand_index.                                *)
(*                                                                         *)
(* A card CardWithSuit(c, s) is the pair <<c, s>> of the discriminants of  *)
(* its Card and its Suit (the values `as u8` and the derived PartialOrd    *)
(* use).  Option::None is the empty tuple.                                 *)
(***************************************************************************)
EXTENDS Integers, Sequences, FiniteSets, TLC

VARIABLES
    pc,             \* position in Game::start: "new", "deal", "play", "done", "aborted"
    hand_index,     \* loop counter of `for hand_index in 0..6`
    player_hand,
    computer_hand,
    turned_card,
    deck,
    player_score,
    computer_score,
    turn,
    turn_score,
    turn_stack,
    input,          \* last line read by choose_card
    out             \* last trick / victory line printed

vars == <<pc, hand_index, player_hand, computer_hand, turned_card, deck,
          player_score, computer_score, turn, turn_score, turn_stack,
          input, out>>

----------------------------------------------------------------------------
(* Bounds of the exploration *)

\* rounds (counted from the first) whose shuffle ranges over ShuffleOutcomes;
\* later rounds take the shuffle that leaves the deck as built
MaxShuffleRounds == 2

\* rounds (counted from the first) in which the line typed by the Player
\* ranges over Lines; in later rounds the Player types 1
MaxChoiceRounds == 1

\* largest integer typed by the Player
MaxInput == 4

----------------------------------------------------------------------------
(* enum Suit, enum Card: discriminants in declaration order *)

Clubs == 0
Hearts == 1
Spades == 2
Diamonds == 3

Three == 0
Two == 1
Ace == 2
Knight == 3
Joker == 4
Queen == 5
Seven == 6
Six == 7
Five == 8
Four == 9

Player == "Player"
Computer == "Computer"

None == <<>>

CardWithSuit(c, s) == <<c, s>>

score_increment == 1

WinScore == 12

U8Max == 255

----------------------------------------------------------------------------
(* Sequence helpers (Vec operations) *)

Last(v) == v[Len(v)]

\* Vec::pop on a non-empty vector: the vector that remains
Front(v) == SubSeq(v, 1, Len(v) - 1)

Reverse(v) == [i \in 1..Len(v) |-> v[Len(v) + 1 - i]]

Count(v, c) == Cardinality({i \in DOMAIN v : v[i] = c})

\* v without the last occurrence of c
RemoveOne(v, c) ==
    LET i == CHOOSE k \in DOMAIN v :
                 v[k] = c /\ \A j \in DOMAIN v : j > k => v[j] # c
    IN  SubSeq(v, 1, i - 1) \o SubSeq(v, i + 1, Len(v))

RECURSIVE RemoveAll(_, _)
RemoveAll(v, cs) ==
    IF cs = <<>> THEN v ELSE RemoveAll(RemoveOne(v, cs[1]), Tail(cs))

\* Vec::remove in place of swap_remove: the cards after index shift down
stable_remove(v, index) ==
    [i \in 1..(Len(v) - 1) |-> IF i < index + 1 THEN v[i] ELSE v[i + 1]]

\* Vec::swap_remove(index), index 0-based and in range: the vector that remains
swap_remove(v, index) ==
    LET n == Len(v)
    IN  [i \in 1..(n - 1) |-> IF i = index + 1 THEN v[n] ELSE v[i]]

is_odd(n) == n % 2 = 1

----------------------------------------------------------------------------
(* Card model *)

\* the rank after the last wraps to the first
is_manilha_wrapping(self, turned) == ((turned[1] + 1) % 10) = self[1]

\* (turned_card.0 as u8 + 1) == self.0 as u8
is_manilha(self, turned) == (turned[1] + 1) = self[1]

\* the suit compared before the rank
CardGtSuitFirst(a, b) == IF a[2] # b[2] THEN a[2] > b[2] ELSE a[1] > b[1]

\* the suit comparison reversed
CardGtSuitReversed(a, b) == IF a[1] # b[1] THEN a[1] > b[1] ELSE a[2] < b[2]

\* a > b under impl PartialOrd for CardWithSuit (rank first, then suit)
CardGt(a, b) == IF a[1] # b[1] THEN a[1] > b[1] ELSE a[2] > b[2]

\* the 40 cards in the order build_deck pushes them
suits == <<Diamonds, Spades, Clubs, Hearts>>
cards == <<Three, Two, Ace, Knight, Joker, Queen, Seven, Six, Five, Four>>

NewCards ==
    [i \in 1..(Len(suits) * Len(cards)) |->
        CardWithSuit(cards[((i - 1) % Len(cards)) + 1],
                     suits[((i - 1) \div Len(cards)) + 1])]

NewCardSet == {NewCards[i] : i \in DOMAIN NewCards}

----------------------------------------------------------------------------
(* Shuffle.  Between two shuffles only the last 7 cards of the deck are     *)
(* popped, so an outcome of the shuffle is given by the cards it puts at    *)
(* the end of the deck, in pop order <<P1, C1, P2, C2, P3, C3, turned>>.    *)
(* <<>> is the outcome that leaves the deck in the order it was built.      *)

ShuffleOutcomes ==
    { <<>>,
      \* turned Six: Fives are manilhas, on both sides
      << CardWithSuit(Five, Clubs),    CardWithSuit(Five, Diamonds),
         CardWithSuit(Three, Clubs),   CardWithSuit(Ace, Hearts),
         CardWithSuit(Five, Spades),   CardWithSuit(Five, Hearts),
         CardWithSuit(Six, Spades) >>,
      \* turned Four
      << CardWithSuit(Five, Hearts),   CardWithSuit(Seven, Clubs),
         CardWithSuit(Six, Clubs),     CardWithSuit(Two, Diamonds),
         CardWithSuit(Three, Diamonds), CardWithSuit(Ace, Diamonds),
         CardWithSuit(Four, Clubs) >>,
      \* turned Seven: the Computer holds the only manilha
      << CardWithSuit(Three, Spades),  CardWithSuit(Six, Spades),
         CardWithSuit(Two, Clubs),     CardWithSuit(Knight, Clubs),
         CardWithSuit(Queen, Diamonds), CardWithSuit(Joker, Spades),
         CardWithSuit(Seven, Diamonds) >>,
      \* takes two Aces of Spades from the deck
      << CardWithSuit(Ace, Spades),    CardWithSuit(Knight, Diamonds),
         CardWithSuit(Queen, Clubs),   CardWithSuit(Joker, Clubs),
         CardWithSuit(Seven, Spades),  CardWithSuit(Ace, Spades),
         CardWithSuit(Two, Hearts) >> }

\* the permutation of d that ends with the cards of top, top[1] last
shuffle(d, top) == RemoveAll(d, top) \o Reverse(top)

\* the outcomes the shuffle of d can have in round number `round` (0-based)
Shuffles(d, round) ==
    IF round < MaxShuffleRounds
    THEN {t \in ShuffleOutcomes :
             \A i \in DOMAIN t : Count(d, t[i]) >= Count(t, t[i])}
    ELSE {<<>>}

\* Game::build_deck: the 40 cards are pushed onto the deck as it is, then
\* the whole deck is shuffled
build_deck(d, top) == shuffle(d \o NewCards, top)

----------------------------------------------------------------------------
(* Game::new *)

Init ==
    /\ pc = "new"
    /\ hand_index = 0
    /\ player_hand = <<>>
    /\ computer_hand = <<>>
    /\ turned_card = None
    /\ deck = <<>>
    /\ player_score = 0
    /\ computer_score = 0
    /\ turn = Player
    /\ turn_score = 0
    /\ turn_stack = <<>>
    /\ input = <<>>
    /\ out = "none"

\* Game::init, called once at the top of Game::start
init ==
    /\ pc = "new"
    /\ \E top \in Shuffles(deck \o NewCards, 0) :
           deck' = build_deck(deck, top)
    /\ pc' = "deal"
    /\ UNCHANGED <<hand_index, player_hand, computer_hand, turned_card,
                   player_score, computer_score, turn, turn_score,
                   turn_stack, input, out>>

----------------------------------------------------------------------------
(* Game::build_hands_and_flip *)

\* every card dealt to the Computer
deal_to_computer(i, t) == Computer

\* the parity test of the deal lost
deal_to_player(i, t) == Player

\* the side that receives draw i of the deal
deal_to(i, t) == IF is_odd(i) /\ t = Player THEN Computer ELSE Player

\* the draws the loop `for i in 0..6` completes: all 6, or as many as the
\* deck holds when deck.pop().unwrap() finds it empty
deal_draws(d) == IF Len(d) < 6 THEN Len(d) ELSE 6

\* the card that draw i (from 0) pops
deal_card(d, i) == d[Len(d) - i]

\* the cards the loop pushes on the hand of `side`, in the order pushed
deal_hand(d, t, side) ==
    LET idx == SelectSeq([i \in 1..deal_draws(d) |-> i - 1],
                         LAMBDA i : deal_to(i, t) = side)
    IN  [k \in 1..Len(idx) |-> deal_card(d, idx[k])]

build_hands_and_flip ==
    /\ pc = "deal"
    /\ player_hand' = player_hand \o deal_hand(deck, turn, Player)
    /\ computer_hand' = computer_hand \o deal_hand(deck, turn, Computer)
    /\ IF Len(deck) < 6
       THEN \* unwrap panics on the empty deck
            /\ pc' = "aborted"
            /\ deck' = <<>>
            /\ UNCHANGED turned_card
       ELSE /\ pc' = "play"
            \* self.turned_card = self.deck.pop()
            /\ turned_card' = IF Len(deck) = 6 THEN None ELSE deal_card(deck, 6)
            /\ deck' = IF Len(deck) = 6 THEN <<>>
                       ELSE SubSeq(deck, 1, Len(deck) - 7)
    /\ hand_index' = 0
    /\ UNCHANGED <<player_score, computer_score, turn, turn_score,
                   turn_stack, input, out>>

----------------------------------------------------------------------------
(* Game::check_who_won_hand *)

\* the manilha branches lost
drawn_or_pile_raw(drawn_card, last_drawn, turned) ==
    CardGt(last_drawn, drawn_card)

\* TRUE when the card just drawn wins against the top of the trick stack
drawn_or_pile(drawn_card, last_drawn, turned) ==
    IF is_manilha(drawn_card, turned) /\ is_manilha(last_drawn, turned)
    THEN CardGt(last_drawn, drawn_card)
    ELSE IF is_manilha(drawn_card, turned) THEN TRUE
    ELSE IF is_manilha(last_drawn, turned) THEN FALSE
    ELSE CardGt(last_drawn, drawn_card)

player_won(drawn_card, last_drawn, turned, t) ==
    IF drawn_or_pile(drawn_card, last_drawn, turned)
    THEN t = Player
    ELSE t = Computer

\* the turn_score it leaves (unchanged when the trick stack is empty)
check_who_won_hand(drawn_card, stack, turned, t, score) ==
    IF stack = <<>> THEN score
    ELSE IF player_won(drawn_card, Last(stack), turned, t)
         THEN score + 1
         ELSE score - 1

\* expect("Game not initialized") fails
check_panics(stack, turned) == stack # <<>> /\ turned = None

\* the turn handed to the Computer whoever played
turn_to_computer(t) == Computer

\* the flip of the turn lost
same_turn(t) == t

\* Turn::Player => Turn::Computer, Turn::Computer => Turn::Player
other_turn(t) == IF t = Player THEN Computer ELSE Player

\* the trick line printed after check_who_won_hand
trick_line(score) == IF score >= 0 THEN "player_hand" ELSE "computer_hand"

\* body of the play loop after drawn_card is bound: resolution at odd
\* positions, push on the trick stack, flip of the turn
after_draw(drawn_card) ==
    IF hand_index > 0 /\ is_odd(hand_index) /\ check_panics(turn_stack, turned_card)
    THEN /\ pc' = "aborted"
         /\ UNCHANGED <<hand_index, turn_score, out, turn_stack, turn>>
    ELSE /\ pc' = "play"
         /\ turn_score' =
               IF hand_index > 0 /\ is_odd(hand_index)
               THEN check_who_won_hand(drawn_card, turn_stack, turned_card,
                                       turn, turn_score)
               ELSE turn_score
         /\ out' = IF hand_index > 0 /\ is_odd(hand_index)
                   THEN trick_line(turn_score')
                   ELSE out
         /\ turn_stack' = Append(turn_stack, drawn_card)
         /\ turn' = other_turn(turn)
         /\ hand_index' = hand_index + 1

----------------------------------------------------------------------------
(* choose_card and the Player's play *)

\* lines the Player can type: <<n>> is the decimal numeral of n, <<>> a line
\* that holds no integer
Lines(round) ==
    IF round < MaxChoiceRounds
    THEN {<<n>> : n \in 0..MaxInput} \cup {<<>>}
    ELSE {<<1>>}

\* input.trim().parse::<u8>() succeeds
parses(line) == line # <<>> /\ line[1] >= 0 /\ line[1] <= U8Max

\* the u8 that choose_card returns for a line that parses
choose_card(line) == line[1]

\* player_hand.swap_remove(chosen_card_index as usize - 1) does not panic
\* (0 - 1 overflows, or wraps to an index out of range)
index_ok(hand, chosen_card_index) ==
    chosen_card_index >= 1 /\ chosen_card_index - 1 < Len(hand)

rounds_played == player_score + computer_score

\* a line that does not parse: the line stays, the Player is asked again
player_asked_again(line) ==
    IF line = <<>>
    THEN /\ pc' = "play"
         /\ UNCHANGED <<hand_index, player_hand, turn, turn_score,
                        turn_stack, out>>
    ELSE /\ pc' = "aborted"
         /\ UNCHANGED <<hand_index, player_hand, turn, turn_score,
                        turn_stack, out>>

\* an index past the end of the hand is clamped to the last card
player_index_clamped(line) ==
    IF line # <<>> /\ choose_card(line) > Len(player_hand) /\ player_hand # <<>>
    THEN /\ pc' = "play"
         /\ player_hand' = Front(player_hand)
         /\ turn_stack' = Append(turn_stack, Last(player_hand))
         /\ turn' = Computer
         /\ hand_index' = hand_index + 1
         /\ UNCHANGED <<turn_score, out>>
    ELSE /\ pc' = "aborted"
         /\ UNCHANGED <<hand_index, player_hand, turn, turn_score,
                        turn_stack, out>>

\* an index out of range is refused and the Player is asked again
player_index_refused(line) ==
    IF line # <<>>
    THEN /\ pc' = "play"
         /\ UNCHANGED <<hand_index, player_hand, turn, turn_score,
                        turn_stack, out>>
    ELSE /\ pc' = "aborted"
         /\ UNCHANGED <<hand_index, player_hand, turn, turn_score,
                        turn_stack, out>>

\* expect("input is not integer") fails, or swap_remove panics: the process
\* ends with the game as it was before the prompt
player_aborts(line) ==
    /\ pc' = "aborted"
    /\ UNCHANGED <<hand_index, player_hand, turn, turn_score, turn_stack, out>>

player_play ==
    /\ pc = "play"
    /\ hand_index < 6
    /\ turn = Player
    /\ \E line \in Lines(rounds_played) :
          /\ input' = line
          /\ IF parses(line) /\ index_ok(player_hand, choose_card(line))
             THEN /\ player_hand' = swap_remove(player_hand, choose_card(line) - 1)
                  /\ after_draw(player_hand[choose_card(line)])
             ELSE player_aborts(line)
    /\ UNCHANGED <<computer_hand, turned_card, deck, player_score,
                   computer_score>>

(* Game::take_computer_hand and the Computer's play *)

computer_play ==
    /\ pc = "play"
    /\ hand_index < 6
    /\ turn = Computer
    /\ IF computer_hand = <<>>
       THEN /\ pc' = "aborted"
            /\ UNCHANGED <<hand_index, computer_hand, turn, turn_score,
                           turn_stack, out>>
       ELSE /\ computer_hand' = Front(computer_hand)
            /\ after_draw(Last(computer_hand))
    /\ UNCHANGED <<player_hand, turned_card, deck, player_score,
                   computer_score, input>>

----------------------------------------------------------------------------
(* End of the round: reset_turn, the match point, the end of the match *)

\* reset_turn leaves turn_score as the round ended it
keep_turn_score(score) == score

\* turn_score as reset_turn leaves it
reset_turn_score(score) == 0

\* the side that receives the match point, read from turn_score after
\* reset_turn
round_winner(score) == IF score >= 0 THEN Player ELSE Computer

\* > in place of >=
player_passes_win_score(ps) == ps > WinScore

player_wins_match(ps) == ps >= WinScore

computer_wins_match(cs) == cs >= WinScore

end_round ==
    /\ pc = "play"
    /\ hand_index = 6
    \* reset_turn
    /\ turn_score' = reset_turn_score(turn_score)
    /\ computer_hand' = <<>>
    /\ player_hand' = <<>>
    /\ turned_card' = None
    \* the match point
    /\ player_score' = IF round_winner(turn_score') = Player
                       THEN player_score + score_increment
                       ELSE player_score
    /\ computer_score' = IF round_winner(turn_score') = Computer
                         THEN computer_score + score_increment
                         ELSE computer_score
    /\ \E top \in Shuffles(deck \o NewCards, player_score' + computer_score') :
           deck' = build_deck(deck, top)
    /\ IF player_wins_match(player_score')
       THEN pc' = "done" /\ out' = "player_won"
       ELSE IF computer_wins_match(computer_score')
       THEN pc' = "done" /\ out' = "computer_won"
       ELSE pc' = "deal" /\ out' = out
    /\ UNCHANGED <<hand_index, turn, turn_stack, input>>

----------------------------------------------------------------------------

Next ==
    \/ init
    \/ build_hands_and_flip
    \/ player_play
    \/ computer_play
    \/ end_round

Spec == Init /\ [][Next]_vars

\* the process keeps running while it can: the loop of Game::start has no
\* wait but the read of the Player's line, which the Player answers
SpecLive == Spec /\ WF_vars(Next)

TypeOK ==
    /\ pc \in {"new", "deal", "play", "done", "aborted"}
    /\ hand_index \in 0..6
    /\ turn \in {Player, Computer}
    /\ turn_score \in -3..3
    /\ player_score \in 0..U8Max
    /\ computer_score \in 0..U8Max

----------------------------------------------------------------------------
(* The first trick over every deal of its three cards.  The first shuffle  *)
(* ranges over the outcomes that give the Player p as first card, the      *)
(* Computer c as last card (the card it plays first) and turn t up, for    *)
(* all distinct cards p, c, t; the other four cards dealt are the first    *)
(* four of the deck as built that are none of the three.  The match is     *)
(* followed up to the resolution of the first trick.                       *)

NotIn(used, x) == x \notin used

FirstTrickShuffle(p, c, t) ==
    LET free == SelectSeq(NewCards, LAMBDA x : NotIn({p, c, t}, x))
    IN  <<p, free[1], free[2], free[3], free[4], c, t>>

FirstTrickShuffles ==
    {FirstTrickShuffle(x[1], x[2], x[3]) :
        x \in {y \in NewCardSet \X NewCardSet \X NewCardSet :
                  y[1] # y[2] /\ y[1] # y[3] /\ y[2] # y[3]}}

init_first_trick ==
    /\ pc = "new"
    /\ \E top \in FirstTrickShuffles : deck' = build_deck(deck, top)
    /\ pc' = "deal"
    /\ UNCHANGED <<hand_index, player_hand, computer_hand, turned_card,
                   player_score, computer_score, turn, turn_score,
                   turn_stack, input, out>>

NextFirstTrick ==
    \/ init_first_trick
    \/ build_hands_and_flip
    \/ hand_index = 0 /\ player_play
    \/ hand_index = 1 /\ computer_play

SpecFirstTrick == Init /\ [][NextFirstTrick]_vars

----------------------------------------------------------------------------
(* Vocabulary of the properties *)

\* a step that ends a round (reset_turn and the match point)
RoundEnds == pc = "play" /\ hand_index = 6 /\ pc' # "play"

\* a step that deals a round
Deals == pc = "deal" /\ pc' = "play"

\* a step that plays a card
Plays == pc = "play" /\ pc' = "play" /\ hand_index' = hand_index + 1

\* a play that resolves a trick: the card played against the top of the stack
Resolves == Plays /\ is_odd(hand_index) /\ turn_stack # <<>>

\* a trick has just been resolved: its cards are the last two of the stack
Resolved == pc = "play" /\ hand_index \in {2, 4, 6}

PlayedLast == turn_stack[Len(turn_stack)]
PlayedBefore == turn_stack[Len(turn_stack) - 1]

\* the cards played so far in the round
RoundPlays ==
    SubSeq(turn_stack, Len(turn_stack) - hand_index + 1, Len(turn_stack))

\* the cards taken from the deck in the round
RoundCards ==
    player_hand \o computer_hand \o RoundPlays \o <<turned_card>>

Range(v) == {v[i] : i \in DOMAIN v}

AllCards == {CardWithSuit(c, s) : c \in Range(cards), s \in Range(suits)}

\* what a resolving step adds to turn_score when side `winner` takes the trick
TrickGoesTo(winner) ==
    turn_score' = turn_score + (IF winner = Player THEN 1 ELSE -1)

\* in a resolving step: the side that plays the card drawn, and the side
\* that played the card on top of the stack
DrawnSide == turn
PileSide == IF turn = Player THEN Computer ELSE Player

----------------------------------------------------------------------------
(* C1: at the end of a round the side that won more tricks (turn_score > 0 *)
(* the Player, turn_score < 0 the Computer) gains score_increment and the  *)
(* other score is unchanged.                                               *)
C1_RoundWinnerBySign ==
    [][ RoundEnds =>
          /\ turn_score > 0 =>
                /\ player_score' = player_score + score_increment
                /\ computer_score' = computer_score
          /\ turn_score < 0 =>
                /\ computer_score' = computer_score + score_increment
                /\ player_score' = player_score ]_vars

(* C2: in every round the deck before dealing holds exactly the 40 cards,  *)
(* one per (Rank, Suit), and 33 cards remain after the deal.               *)
C2_FreshDeckEveryRound ==
    /\ pc = "deal" => Len(deck) = 40 /\ Range(deck) = AllCards
    /\ pc = "play" => Len(deck) = 33

(* C3: the 7 cards taken from the deck in a round are pairwise distinct,   *)
(* so the two cards of a trick are never the same card.                    *)
C3_NoCardTwice ==
    /\ pc = "play" => Cardinality(Range(RoundCards)) = 7
    /\ Resolved => PlayedLast # PlayedBefore

(* C4: when exactly one card of a trick is a manilha, the side that played *)
(* it takes the trick, and turn_score moves by +1 for the Player and -1    *)
(* for the Computer.                                                       *)
C4_ManilhaPrecedence ==
    [][ Resolves =>
          LET drawn == Last(turn_stack')
              pile  == Last(turn_stack)
          IN  /\ (is_manilha(drawn, turned_card) /\ ~is_manilha(pile, turned_card))
                    => TrickGoesTo(DrawnSide)
              /\ (is_manilha(pile, turned_card) /\ ~is_manilha(drawn, turned_card))
                    => TrickGoesTo(PileSide) ]_vars

\* a trick was resolved in which the only manilha has the weaker raw rank
C4_Witness ==
    /\ Resolved
    /\ \/ /\ is_manilha(PlayedLast, turned_card)
          /\ ~is_manilha(PlayedBefore, turned_card)
          /\ PlayedLast[1] > PlayedBefore[1]
       \/ /\ is_manilha(PlayedBefore, turned_card)
          /\ ~is_manilha(PlayedLast, turned_card)
          /\ PlayedBefore[1] > PlayedLast[1]

\* suit strength as C5 states it: Diamonds > Spades > Clubs > Hearts
StatedSuitStrength(s) ==
    IF s = Diamonds THEN 4 ELSE IF s = Spades THEN 3 ELSE IF s = Clubs THEN 2 ELSE 1

\* suit strength by declaration order, first declared strongest:
\* Clubs > Hearts > Spades > Diamonds
DeclaredSuitStrength(s) ==
    IF s = Clubs THEN 4 ELSE IF s = Hearts THEN 3 ELSE IF s = Spades THEN 2 ELSE 1

(* C5 as stated: when both cards of a trick are manilhas, the side that    *)
(* played the stronger suit under Diamonds > Spades > Clubs > Hearts takes *)
(* the trick (a Five of Diamonds beats a Five of Clubs).                   *)
C5_DiamondsStrongest ==
    [][ Resolves =>
          LET drawn == Last(turn_stack')
              pile  == Last(turn_stack)
          IN  (is_manilha(drawn, turned_card) /\ is_manilha(pile, turned_card))
              => /\ StatedSuitStrength(drawn[2]) > StatedSuitStrength(pile[2])
                       => TrickGoesTo(DrawnSide)
                 /\ StatedSuitStrength(pile[2]) > StatedSuitStrength(drawn[2])
                       => TrickGoesTo(PileSide) ]_vars

(* C5 amended: when both cards of a trick are manilhas of different suits, *)
(* the side that played the stronger suit under Clubs > Hearts > Spades >  *)
(* Diamonds takes the trick (a Five of Clubs beats a Five of Diamonds).    *)
C5_ClubsStrongest ==
    [][ Resolves =>
          LET drawn == Last(turn_stack')
              pile  == Last(turn_stack)
          IN  (is_manilha(drawn, turned_card) /\ is_manilha(pile, turned_card))
              => /\ DeclaredSuitStrength(drawn[2]) > DeclaredSuitStrength(pile[2])
                       => TrickGoesTo(DrawnSide)
                 /\ DeclaredSuitStrength(pile[2]) > DeclaredSuitStrength(drawn[2])
                       => TrickGoesTo(PileSide) ]_vars

\* a trick between the Five of Clubs and the Five of Diamonds, both manilhas,
\* was resolved
C5_Witness ==
    /\ Resolved
    /\ {PlayedLast, PlayedBefore} =
          {CardWithSuit(Five, Clubs), CardWithSuit(Five, Diamonds)}
    /\ is_manilha(PlayedLast, turned_card)
    /\ is_manilha(PlayedBefore, turned_card)

(* C6: with a Four turned, every Five is a manilha, and in a trick between *)
(* the Five of Hearts and the Ace of Diamonds the side that played the     *)
(* Five of Hearts takes the trick.                                         *)
C6_FourTurnsFive ==
    [][ LET drawn == Last(turn_stack')
            pile  == Last(turn_stack)
        IN  (/\ Resolves
             /\ turned_card # None
             /\ turned_card[1] = Four
             /\ {drawn, pile} =
                   {CardWithSuit(Five, Hearts), CardWithSuit(Ace, Diamonds)})
            => /\ \A s \in Range(suits) :
                     is_manilha(CardWithSuit(Five, s), turned_card)
               /\ drawn = CardWithSuit(Five, Hearts) => TrickGoesTo(DrawnSide)
               /\ pile = CardWithSuit(Five, Hearts) => TrickGoesTo(PileSide) ]_vars

(* C7: no score passes 12, at most one score is 12, and once a score is 12 *)
(* the match is over: nothing more is dealt or played and the last line    *)
(* printed is the victory of the side whose score is 12.                   *)
C7_MatchEndsAtTwelve ==
    /\ player_score <= 12
    /\ computer_score <= 12
    /\ ~(player_score = 12 /\ computer_score = 12)
    /\ (player_score = 12 \/ computer_score = 12) =>
          /\ pc = "done"
          /\ ~ENABLED Next
          /\ out = IF player_score = 12 THEN "player_won" ELSE "computer_won"

\* the match ended with a score of 12
C7_Witness == pc = "done" /\ (player_score = 12 \/ computer_score = 12)

(* C8: a selection of index k in 1..n from a hand of n cards plays the     *)
(* card at position k, moves the former last card to position k (k < n),   *)
(* keeps every other position, shrinks the hand by one and leaves the      *)
(* Computer's hand, the deck, the scores and the turned card unchanged.    *)
C8_SwapRemove ==
    [][ (Plays /\ turn = Player) =>
          LET n == Len(player_hand)
              k == input'[1]
          IN  /\ k \in 1..n
              /\ Last(turn_stack') = player_hand[k]
              /\ Len(player_hand') = n - 1
              /\ k < n => player_hand'[k] = player_hand[n]
              /\ \A i \in 1..(n - 1) : i # k => player_hand'[i] = player_hand[i]
              /\ UNCHANGED <<computer_hand, deck, player_score,
                             computer_score, turned_card>> ]_vars

\* index 1 was chosen from a hand of three distinct cards [A, B, C]: A is
\* on the trick stack and two cards are left
C8_Witness ==
    /\ pc = "play"
    /\ hand_index = 1
    /\ input = <<1>>
    /\ Len(player_hand) = 2
    /\ Cardinality(Range(player_hand) \cup {PlayedLast}) = 3

(* C9: the deal pops 7 cards from the end of the deck: draws 1, 3, 5 go to *)
(* the Player, draws 2, 4, 6 to the Computer, the 7th is the turned card;  *)
(* each hand then holds exactly 3 cards.                                   *)
C9_DealSevenAlternating ==
    [][ pc = "deal" =>
          LET n == Len(deck)
          IN  /\ n >= 7
              /\ pc' = "play"
              /\ player_hand' = <<deck[n], deck[n - 2], deck[n - 4]>>
              /\ computer_hand' = <<deck[n - 1], deck[n - 3], deck[n - 5]>>
              /\ turned_card' = deck[n - 6]
              /\ deck' = SubSeq(deck, 1, n - 7) ]_vars

\* a round after the first has been dealt
C9_Witness ==
    /\ pc = "play"
    /\ hand_index = 0
    /\ player_score + computer_score >= 1
    /\ Len(player_hand) = 3
    /\ Len(computer_hand) = 3
    /\ turned_card # None

(* C10: every play is made by the side named by turn, removes exactly one  *)
(* card from that side's hand and flips turn; turn changes in no other way.*)
C10_TurnAlternates ==
    [][ /\ turn_stack' # turn_stack =>
            /\ turn_stack' = Append(turn_stack, Last(turn_stack'))
            /\ turn' # turn
            /\ turn = Player =>
                  /\ Len(player_hand') = Len(player_hand) - 1
                  /\ Last(turn_stack') \in Range(player_hand)
                  /\ computer_hand' = computer_hand
            /\ turn = Computer =>
                  /\ Len(computer_hand') = Len(computer_hand) - 1
                  /\ Last(turn_stack') \in Range(computer_hand)
                  /\ player_hand' = player_hand
        /\ turn' # turn => turn_stack' # turn_stack ]_vars

\* both sides have played twice in a round, in alternation
C10_Witness ==
    /\ pc = "play"
    /\ hand_index = 4
    /\ turn = Player
    /\ Len(player_hand) = 1
    /\ Len(computer_hand) = 1

----------------------------------------------------------------------------
\* a step taken while the Player is prompted for a card
Prompted == pc = "play" /\ hand_index < 6 /\ turn = Player

\* the game as the abort of a prompt must leave it
UntouchedByAbort ==
    UNCHANGED <<player_hand, computer_hand, turn_stack, turn, turn_score,
                player_score, computer_score, hand_index, deck, turned_card>>

(* C11: a line that is no integer aborts the process at once: no card      *)
(* leaves a hand, nothing is pushed on the trick stack, and no step        *)
(* follows the abort, so scores, turn and turn_score never change again.   *)
C11_MalformedLineAborts ==
    [][ /\ (Prompted /\ input' = <<>>) => (pc' = "aborted" /\ UntouchedByAbort)
        /\ pc # "aborted" ]_vars

\* the process aborted on a line that is no integer, typed in mid-round
C11_Witness ==
    /\ pc = "aborted"
    /\ input = <<>>
    /\ turn = Player
    /\ hand_index = 2

(* C12: the line printed after a trick names the side that won that trick: *)
(* the Player's line iff the play moved turn_score up, the Computer's line *)
(* iff it moved it down.                                                   *)
C12_TrickLineNamesWinner ==
    [][ Resolves =>
          out' = IF turn_score' > turn_score THEN "player_hand"
                                            ELSE "computer_hand" ]_vars

(* C13: the trick stack holds exactly the cards played so far in the round:*)
(* empty before the first play, never more than 6 cards.                   *)
C13_StackOfTheRound ==
    /\ Len(turn_stack) <= 6
    /\ pc = "play" => Len(turn_stack) = hand_index
    /\ pc = "deal" => turn_stack = <<>>

\* the ranks in declaration order, and the position of a rank in it (from 0)
DeclaredRanks == <<Three, Two, Ace, Knight, Joker, Queen, Seven, Six, Five, Four>>
DeclaredPositions ==
    [r \in Range(DeclaredRanks) |->
        CHOOSE i \in 0..(Len(DeclaredRanks) - 1) : DeclaredRanks[i + 1] = r]
DeclaredPosition(rank) == DeclaredPositions[rank]

\* rank strength as C14 states it: Three strongest, Four weakest
StatedRankStrength(rank) == Len(DeclaredRanks) - DeclaredPosition(rank)

(* C14: in a trick where neither card is a manilha and the ranks differ,   *)
(* the side that played the stronger rank (Three > Two > Ace > Knight >    *)
(* Joker > Queen > Seven > Six > Five > Four) takes the trick, whatever    *)
(* the suits, and turn_score moves by exactly +1 or -1.                    *)
C14_StrongerRankWins ==
    [][ Resolves =>
          LET drawn == Last(turn_stack')
              pile  == Last(turn_stack)
          IN  (/\ ~is_manilha(drawn, turned_card)
               /\ ~is_manilha(pile, turned_card)
               /\ drawn[1] # pile[1])
              => /\ StatedRankStrength(drawn[1]) > StatedRankStrength(pile[1])
                       => TrickGoesTo(DrawnSide)
                 /\ StatedRankStrength(pile[1]) > StatedRankStrength(drawn[1])
                       => TrickGoesTo(PileSide) ]_vars

\* a trick without manilhas was resolved in which the stronger rank came
\* with the suit that compares lower
C14_Witness ==
    /\ Resolved
    /\ ~is_manilha(PlayedLast, turned_card)
    /\ ~is_manilha(PlayedBefore, turned_card)
    /\ StatedRankStrength(PlayedLast[1]) > StatedRankStrength(PlayedBefore[1])
    /\ PlayedLast[2] > PlayedBefore[2]
    /\ turn_score = -1

(* C15: no pop, last or expect ever finds its resource missing: the deck   *)
(* holds at least 7 cards at every deal, a card is turned during the whole *)
(* play of a round, the side asked for a card holds one, and the only      *)
(* abort is that of a prompt answered with a line that is no index of the  *)
(* hand.                                                                   *)
C15_NoExhaustedAccess ==
    /\ pc = "deal" => Len(deck) >= 7
    /\ pc = "play" => turned_card # None
    /\ (pc = "play" /\ hand_index < 6 /\ turn = Computer) => computer_hand # <<>>
    /\ (pc = "play" /\ hand_index < 6 /\ turn = Player) => player_hand # <<>>
    /\ pc = "aborted" =>
          /\ turn = Player
          /\ hand_index < 6
          /\ player_hand # <<>>
          /\ turned_card # None
          /\ input = <<>> \/ input[1] \notin 1..Len(player_hand)

\* the Computer is about to play its last card of the last round
C15_Witness ==
    /\ pc = "play"
    /\ hand_index = 5
    /\ turn = Computer
    /\ Len(computer_hand) = 1
    /\ player_score + computer_score = 11

(* C16: a card is a manilha iff the position of its rank in the            *)
(* declaration order is the position of the turned card's rank plus one,   *)
(* whatever the suits and without wraparound: under a turned Four no card  *)
(* is a manilha, and a Three never is.                                     *)
C16_ManilhaIsNextPosition ==
    turned_card # None =>
       /\ \A c \in AllCards :
             is_manilha(c, turned_card) <=>
                DeclaredPosition(c[1]) = DeclaredPosition(turned_card[1]) + 1
       /\ turned_card[1] = Four => \A c \in AllCards : ~is_manilha(c, turned_card)
       /\ \A s \in Range(suits) : ~is_manilha(CardWithSuit(Three, s), turned_card)

\* under a turned Four a Five led against a stronger rank and lost the trick
C16_Witness ==
    /\ Resolved
    /\ turned_card[1] = Four
    /\ PlayedBefore[1] = Five
    /\ StatedRankStrength(PlayedLast[1]) > StatedRankStrength(Five)
    /\ turn_score = -1

(* C17: a match in which every prompt is answered with an index of the     *)
(* hand (so that the process never aborts) eventually reaches a score of   *)
(* 12 or more, prints a victory line and stops.                            *)
C17_MatchTerminates ==
    [](pc # "aborted") =>
        <>(/\ pc = "done"
           /\ player_score >= 12 \/ computer_score >= 12
           /\ out \in {"player_won", "computer_won"}
           /\ ~ENABLED Next)

\* the match stopped with a victory line after prompts answered in range
C17_Witness ==
    /\ pc = "done"
    /\ out \in {"player_won", "computer_won"}
    /\ input # <<>>
    /\ input[1] >= 1

(* C18: turn is Player when a round is dealt and when it ends; within a    *)
(* round the Player plays at positions 0, 2, 4 and the Computer at 1, 3,   *)
(* 5, so the Computer's card is the one that resolves every trick.         *)
C18_PlayerLeadsEveryTrick ==
    /\ pc = "deal" => turn = Player
    /\ pc = "play" => turn = (IF is_odd(hand_index) THEN Computer ELSE Player)

\* a round after the first: the Player has led the third trick and the
\* Computer is to answer
C18_Witness ==
    /\ pc = "play"
    /\ hand_index = 5
    /\ turn = Computer
    /\ player_score + computer_score >= 1

C20_IndexOutOfRangeAborts ==
    [][ /\ (Prompted /\ input' # <<>> /\ input'[1] \notin 1..Len(player_hand))
            => (pc' = "aborted" /\ UntouchedByAbort)
        /\ pc # "aborted" ]_vars

\* the process aborted on the index just past the end of a two-card hand
C20_Witness ==
    /\ pc = "aborted"
    /\ input = <<3>>
    /\ Len(player_hand) = 2
    /\ Len(turn_stack) = 2

====
